---- MODULE Spec2Model ----
(***************************************************************************)
(* treemux: an HTTP request router built on a prefix tree.                 *)
(*                                                                         *)
(* The routing tree (insertion, lookup with priorities and backtracking),  *)
(* the trailing-slash policy and the dispatch policy are modelled from     *)
(* README.md and from the design specification; the OpenTelemetry          *)
(* middleware is modelled from extra/treemuxotel/treemuxotel.go.           *)
(*                                                                         *)
(* A path or a pattern is a sequence of one-character strings.  The        *)
(* three-byte sequence %2F is carried as the single symbol "%2F".          *)
(***************************************************************************)
EXTENDS Naturals, Sequences, FiniteSets, TLC

VARIABLES
    mux,        \* router configuration, fixed at construction
    root,       \* the routing tree: the root node (nodes are nested records)
    routes,     \* history: the (method, pattern) of every successful Add
    last,       \* what the last operation returned (Add result or response)
    mw          \* state of one middleware invocation (treemuxotel)

vars == <<mux, root, routes, last, mw>>

-----------------------------------------------------------------------------
(* Bounds *)

MaxRoutes == 3
MaxPathLen == 4

-----------------------------------------------------------------------------
(* Sequence helpers *)

Last(s) == s[Len(s)]

Front(s) == SubSeq(s, 1, Len(s) - 1)

Drop(s, n) == SubSeq(s, n + 1, Len(s))

IsPrefix(p, s) == Len(p) <= Len(s) /\ SubSeq(s, 1, Len(p)) = p

\* length of the longest common prefix of a and b
RECURSIVE CommonPrefixLen(_, _)
CommonPrefixLen(a, b) ==
    IF a = <<>> \/ b = <<>> \/ Head(a) # Head(b) THEN 0
    ELSE 1 + CommonPrefixLen(Tail(a), Tail(b))

\* index of the first "/" in s, or Len(s) + 1 when there is none
RECURSIVE NextSlash(_)
NextSlash(s) ==
    IF s = <<>> \/ Head(s) = "/" THEN 1 ELSE 1 + NextSlash(Tail(s))

-----------------------------------------------------------------------------
(* Path codec *)

\* percent-decoding of one symbol of a raw path
UnescapeChar(c) == IF c = "%2F" THEN "/" ELSE c

\* percent-decoding of a raw segment, applied once to a captured value
Unescape(s) == [i \in 1..Len(s) |-> UnescapeChar(s[i])]

\* clean-path normalisation: duplicate slashes are collapsed
RECURSIVE Clean(_)
Clean(p) ==
    IF Len(p) <= 1 THEN p
    ELSE IF p[1] = "/" /\ p[2] = "/" THEN Clean(Tail(p))
    ELSE <<Head(p)>> \o Clean(Tail(p))

StaticTok(c) == [kind |-> "static", val |-> <<c>>]

\* A pattern decomposed into tokens: one static token per literal
\* character, one wildcard or catch-all token per placeholder.  ":" and
\* "*" open a placeholder only at the start of a segment; a backslash at
\* the start of a segment escapes ":", "*" or "\".
RECURSIVE Decompose(_, _)
Decompose(p, atStart) ==
    IF p = <<>> THEN <<>>
    ELSE IF atStart /\ Head(p) \in {":", "*"} THEN
        LET e == NextSlash(p)
            kind == IF Head(p) = ":" THEN "wildcard" ELSE "catchall"
        IN  <<[kind |-> kind, val |-> SubSeq(p, 2, e - 1)]>>
                \o Decompose(Drop(p, e - 1), FALSE)
    ELSE IF atStart /\ Len(p) >= 2 /\ Head(p) = "\\" /\ p[2] \in {":", "*", "\\"} THEN
        <<StaticTok(p[2])>> \o Decompose(Drop(p, 2), FALSE)
    ELSE <<StaticTok(Head(p))>> \o Decompose(Tail(p), Head(p) = "/")

\* the literal characters of the longest all-static prefix of a token list
RECURSIVE StaticRun(_)
StaticRun(toks) ==
    IF toks = <<>> \/ Head(toks).kind # "static" THEN <<>>
    ELSE Head(toks).val \o StaticRun(Tail(toks))

-----------------------------------------------------------------------------
(* Nodes *)

NoFn == [x \in {} |-> x]

NewNode(kind, path, name) ==
    [kind |-> kind, path |-> path, name |-> name,
     staticChild |-> NoFn, wildcardChild |-> <<>>, catchAllChild |-> <<>>,
     leafHandler |-> NoFn, addSlash |-> FALSE, firstSlash |-> <<>>]

RootNode == NewNode("static", <<"/">>, <<>>)

Ok(n) == [ok |-> TRUE, node |-> n, err |-> "nil"]

Fail(e) == [ok |-> FALSE, node |-> RootNode, err |-> e]

-----------------------------------------------------------------------------
(* Routing tree: insertion *)

\* variant: the first registration at the node decides the flag
FlagFirstWins(n, slash) == IF n.firstSlash = <<>> THEN slash ELSE n.addSlash

\* The trailing-slash flag after one more registration at the node: the
\* flag is stored once for the node and shared by all its methods; a
\* registration with a trailing slash sets it.
NewAddSlash(n, slash) == n.addSlash \/ slash

\* variant: a second handler for the method silently replaces the first
DuplicateAllowed(n, method) == FALSE

\* the method table accepts a method once
IsDuplicate(n, method) == method \in DOMAIN n.leafHandler

\* the terminal node receives the route entry and the trailing-slash flag
\* (firstSlash is a history field: the slash presence of the first
\* registration at the node)
SetLeaf(n, method, route, slash) ==
    IF IsDuplicate(n, method) THEN Fail("duplicate route")
    ELSE Ok([n EXCEPT !.leafHandler = (method :> [method |-> method, route |-> route]) @@ @,
                      !.addSlash = NewAddSlash(n, slash),
                      !.firstSlash = IF @ = <<>> THEN <<slash>> ELSE @])

\* radix split of a static child at position k of its fragment: the
\* child's suffix becomes a child of a new node holding the common prefix
SplitNode(child, k) ==
    IF k = Len(child.path) THEN child
    ELSE [NewNode("static", SubSeq(child.path, 1, k), <<>>) EXCEPT
            !.staticChild = (child.path[k + 1] :> [child EXCEPT !.path = Drop(@, k)])]

\* Insertion below node n of the remaining tokens of a pattern.
RECURSIVE addPath(_, _, _, _, _)
addPath(n, toks, method, route, slash) ==
    IF toks = <<>> THEN SetLeaf(n, method, route, slash)
    ELSE LET t == Head(toks) IN
    CASE t.kind = "catchall" ->
            IF Len(toks) > 1 THEN Fail("catch-all not at pattern end")
            ELSE IF n.catchAllChild # <<>> /\ n.catchAllChild[1].name # t.val
            THEN Fail("second catch-all")
            ELSE LET child == IF n.catchAllChild = <<>>
                              THEN NewNode("catchall", <<>>, t.val)
                              ELSE n.catchAllChild[1]
                     r == SetLeaf(child, method, route, slash)
                 IN  IF r.ok THEN Ok([n EXCEPT !.catchAllChild = <<r.node>>]) ELSE r
      [] t.kind = "wildcard" ->
            IF n.wildcardChild # <<>> /\ n.wildcardChild[1].name # t.val
            THEN Fail("conflicting wildcard names")
            ELSE LET child == IF n.wildcardChild = <<>>
                              THEN NewNode("wildcard", <<>>, t.val)
                              ELSE n.wildcardChild[1]
                     r == addPath(child, Tail(toks), method, route, slash)
                 IN  IF r.ok THEN Ok([n EXCEPT !.wildcardChild = <<r.node>>]) ELSE r
      [] OTHER ->
            LET run == StaticRun(toks)
                c == Head(run)
            IN  IF c \in DOMAIN n.staticChild
                THEN LET old == n.staticChild[c]
                         k == CommonPrefixLen(old.path, run)
                         r == addPath(SplitNode(old, k), Drop(toks, k), method, route, slash)
                     IN  IF r.ok THEN Ok([n EXCEPT !.staticChild[c] = r.node]) ELSE r
                ELSE LET r == addPath(NewNode("static", run, <<>>),
                                      Drop(toks, Len(run)), method, route, slash)
                     IN  IF r.ok THEN Ok([n EXCEPT !.staticChild = (c :> r.node) @@ @]) ELSE r

\* a pattern that ends with a trailing slash is stored without it, with
\* the flag, when trailing-slash redirection is enabled
HasTrailingSlash(p) == Len(p) > 1 /\ Last(p) = "/"

StripSlash(cfg, p) ==
    IF HasTrailingSlash(p) /\ cfg.RedirectTrailingSlash THEN Front(p) ELSE p

\* Add(method, pattern, handler): the new tree, or the error
Insert(cfg, tree, method, pattern) ==
    LET slash == HasTrailingSlash(pattern) /\ cfg.RedirectTrailingSlash
        toks == Decompose(StripSlash(cfg, pattern), FALSE)
    IN  IF pattern = <<>> \/ Head(pattern) # "/" THEN Fail("pattern must start with /")
        ELSE addPath(tree, Tail(toks), method, pattern, slash)

-----------------------------------------------------------------------------
(* Matcher *)

NoMatch == [found |-> FALSE, node |-> RootNode, params |-> <<>>]

Match(n, ps) == [found |-> TRUE, node |-> n, params |-> ps]

\* a node terminates a registered pattern when its method table is not empty
IsTerminal(n) == DOMAIN n.leafHandler # {}

Param(name, raw) == [name |-> name, value |-> Unescape(raw)]

\* variant: the Param is put after the Params bound further right
WithParamAppended(name, raw, r) ==
    IF r.found THEN [r EXCEPT !.params = Append(@, Param(name, raw))] ELSE r

\* the Param of a placeholder comes before the Params bound further right
WithParam(name, raw, r) ==
    IF r.found THEN [r EXCEPT !.params = <<Param(name, raw)>> \o @] ELSE r

\* the wildcard consumes one segment: up to the next "/" or the end
WildcardSegment(path) == SubSeq(path, 1, NextSlash(path) - 1)

\* variant: the catch-all also takes an empty remainder
CatchAllAcceptsEmpty(path) == TRUE

\* a catch-all does not match an empty remainder
CatchAllAccepts(path) == path # <<>>

\* variant: the wildcard is tried before the static children
FirstMatchWildcardFirst(s, w, c) == IF w.found THEN w ELSE IF s.found THEN s ELSE c

\* variant: the catch-all is not tried once a wildcard child was tried
FirstMatchWithoutCatchAll(s, w, c) == IF s.found THEN s ELSE w

\* static first, then the wildcard, then the catch-all
FirstMatch(s, w, c) == IF s.found THEN s ELSE IF w.found THEN w ELSE c

\* Depth-first search below node n for the remaining path; a branch is
\* left only when its whole subtree has no match.
RECURSIVE search(_, _)
search(n, path) ==
    IF path = <<>> /\ IsTerminal(n) THEN Match(n, <<>>)
    ELSE LET s == IF path # <<>> /\ Head(path) \in DOMAIN n.staticChild
                     /\ IsPrefix(n.staticChild[Head(path)].path, path)
                  THEN LET child == n.staticChild[Head(path)]
                       IN  search(child, Drop(path, Len(child.path)))
                  ELSE NoMatch
             seg == WildcardSegment(path)
             w == IF n.wildcardChild # <<>> /\ seg # <<>>
                  THEN WithParam(n.wildcardChild[1].name, seg,
                                 search(n.wildcardChild[1], Drop(path, Len(seg))))
                  ELSE NoMatch
             c == IF n.catchAllChild # <<>> /\ CatchAllAccepts(path)
                  THEN Match(n.catchAllChild[1],
                             <<Param(n.catchAllChild[1].name, path)>>)
                  ELSE NoMatch
         IN  FirstMatch(s, w, c)

\* variant: a node without the method counts as no match
OutcomeNotFoundWithoutMethod(r, method) ==
    IF r.found /\ method \in DOMAIN r.node.leafHandler THEN "Success" ELSE "NotFound"

\* the outcome of a match is decided by the matched node's method table
Outcome(r, method) ==
    IF ~r.found THEN "NotFound"
    ELSE IF method \in DOMAIN r.node.leafHandler THEN "Success"
    ELSE "MethodNotAllowed"

\* Lookup(method, path) on a path that starts with "/"
Lookup(tree, method, path) ==
    LET r == search(tree, Tail(path))
    IN  [outcome |-> Outcome(r, method), found |-> r.found, node |-> r.node,
         params |-> r.params]

-----------------------------------------------------------------------------
(* Redirect resolver and dispatch policy *)

DefaultConfig ==
    [RedirectTrailingSlash |-> TRUE, RemoveCatchAllTrailingSlash |-> FALSE,
     HeadCanUseGet |-> TRUE, RedirectBehavior |-> "Redirect301",
     RedirectMethodBehavior |-> NoFn, OptionsHandler |-> FALSE]

NoEntry == [method |-> "", route |-> <<>>]

\* What a call returned.  For Add: method, path (the pattern) and err.
\* For ServeHTTP: the request (method, path), the Matcher's result
\* (searched: the path handed to Lookup; outcome; table: the matched
\* node's method table; isCatchAll, addSlash: the matched node's kind and
\* flag; params) and the action taken (kind, status, location, handler).
NoResponse ==
    [op |-> "none", err |-> "nil", method |-> "", path |-> <<>>,
     searched |-> <<>>, outcome |-> "", table |-> NoFn, isCatchAll |-> FALSE,
     addSlash |-> FALSE, params |-> <<>>,
     kind |-> "", status |-> 0, location |-> <<>>, handler |-> NoEntry]

RedirectBehaviorFor(cfg, method) ==
    IF method \in DOMAIN cfg.RedirectMethodBehavior
    THEN cfg.RedirectMethodBehavior[method]
    ELSE cfg.RedirectBehavior

StatusOf(behavior) ==
    CASE behavior = "Redirect307" -> 307
      [] behavior = "Redirect308" -> 308
      [] OTHER -> 301

\* variant: HEAD never reuses the GET handler
HeadNeverUsesGet(cfg, table, method) == FALSE

\* HEAD may reuse the GET handler of the matched node
HeadUsesGet(cfg, table, method) ==
    method = "HEAD" /\ cfg.HeadCanUseGet /\ "GET" \in DOMAIN table

\* the route entry that serves the method at the matched node, if any
ResolveHandler(cfg, table, method) ==
    IF method \in DOMAIN table THEN <<table[method]>>
    ELSE IF HeadUsesGet(cfg, table, method) THEN <<table["GET"]>>
    ELSE <<>>

\* the request's trailing slash disagrees with the matched node's flag;
\* catch-all patterns are exempt unless RemoveCatchAllTrailingSlash is set
NeedsSlashRedirect(cfg, n, trailing) ==
    /\ cfg.RedirectTrailingSlash
    /\ n.kind # "catchall" \/ cfg.RemoveCatchAllTrailingSlash
    /\ trailing # n.addSlash

\* variant: the redirect target never gets the slash
CanonicalWithoutSlash(addSlash, p) == p

\* the canonical form of a matched path: with the slash iff the flag is set
Canonical(addSlash, p) == IF addSlash THEN Append(p, "/") ELSE p

\* What the router does with one request.
Serve(cfg, tree, method, raw) ==
    LET trailing == HasTrailingSlash(raw)
        p == StripSlash(cfg, raw)
        direct == Lookup(tree, method, p)
        cleaned == Clean(p)
        lr == IF direct.found THEN direct ELSE Lookup(tree, method, cleaned)
        pp == IF direct.found THEN p ELSE cleaned
        behavior == RedirectBehaviorFor(cfg, method)
        entry == ResolveHandler(cfg, lr.node.leafHandler, method)
        base == [NoResponse EXCEPT !.op = "ServeHTTP", !.method = method,
                                   !.path = raw, !.searched = pp,
                                   !.outcome = lr.outcome]
        hit == [base EXCEPT !.table = lr.node.leafHandler,
                            !.isCatchAll = (lr.node.kind = "catchall"),
                            !.addSlash = lr.node.addSlash,
                            !.params = lr.params]
    IN  IF ~lr.found THEN [base EXCEPT !.kind = "notfound", !.status = 404]
        ELSE IF ~direct.found /\ behavior # "UseHandler"
        THEN [hit EXCEPT !.kind = "redirect", !.status = StatusOf(behavior),
                         !.location = cleaned]
        ELSE IF entry = <<>>
        THEN IF method = "OPTIONS" /\ cfg.OptionsHandler
             THEN [hit EXCEPT !.kind = "options"]
             ELSE [hit EXCEPT !.kind = "notallowed", !.status = 405]
        ELSE IF /\ NeedsSlashRedirect(cfg, lr.node, trailing)
                /\ behavior # "UseHandler"
                /\ lr.node.addSlash \/ pp # <<"/">>
        THEN [hit EXCEPT !.kind = "redirect", !.status = StatusOf(behavior),
                         !.location = Canonical(lr.node.addSlash, pp)]
        ELSE [hit EXCEPT !.kind = "handler", !.handler = entry[1]]

-----------------------------------------------------------------------------
(* Inputs *)

RouteMethods == {"GET", "POST", "HEAD"}

RequestMethods == RouteMethods \cup {"OPTIONS"}

PathChars == {"/", "a", "%2F"}

\* request paths: every sequence of path symbols that starts with "/"
Paths ==
    {p \in UNION {[1..n -> PathChars] : n \in 1..MaxPathLen} : p[1] = "/"}

\* the (method, pattern) pairs offered to Add
RoutePool ==
    {<<"GET", <<"/", "a">>>>,
     <<"POST", <<"/", "a">>>>,
     <<"HEAD", <<"/", "a">>>>,
     <<"GET", <<"/", "a", "/">>>>,
     <<"GET", <<"/", ":", "x">>>>,
     <<"GET", <<"/", ":", "y">>>>,
     <<"GET", <<"/", "*", "p">>>>,
     <<"GET", <<"/", "a", "/", "*", "p">>>>,
     <<"GET", <<"/", ":", "x", "/", ":", "y">>>>,
     <<"GET", <<"/", "*", "p", "/", "a">>>>}

ConfigPool ==
    {DefaultConfig,
     [DefaultConfig EXCEPT !.HeadCanUseGet = FALSE, !.OptionsHandler = TRUE,
                           !.RedirectTrailingSlash = FALSE],
     [DefaultConfig EXCEPT !.RemoveCatchAllTrailingSlash = TRUE,
                           !.RedirectBehavior = "Redirect308",
                           !.RedirectMethodBehavior = ("POST" :> "UseHandler")]}

-----------------------------------------------------------------------------
(* The router as a state machine *)

\* no middleware is installed on the router
NoMiddleware == <<>>

Init ==
    /\ mux \in ConfigPool
    /\ root = RootNode
    /\ routes = {}
    /\ last = NoResponse
    /\ mw = NoMiddleware

\* Add(method, pattern, handler): registers the route or returns an error
Add(method, pattern) ==
    LET r == Insert(mux, root, method, pattern)
    IN  /\ last.op = "none"
        /\ Cardinality(routes) < MaxRoutes
        /\ root' = IF r.ok THEN r.node ELSE root
        /\ routes' = IF r.ok THEN routes \cup {[method |-> method, route |-> pattern]}
                     ELSE routes
        /\ last' = [NoResponse EXCEPT !.op = "Add", !.method = method,
                                      !.path = pattern, !.err = r.err]
        /\ UNCHANGED <<mux, mw>>

\* ServeHTTP: one request is routed (the router handles a request
\* synchronously, and registration is not concurrent with lookups, so the
\* model runs one call at a time)
ServeHTTP(method, path) ==
    /\ last.op = "none"
    /\ last' = Serve(mux, root, method, path)
    /\ UNCHANGED <<mux, root, routes, mw>>

\* the call has returned; the router is ready for the next call
Complete ==
    /\ last.op # "none"
    /\ last' = NoResponse
    /\ UNCHANGED <<mux, root, routes, mw>>

Next ==
    \/ \E r \in RoutePool : Add(r[1], r[2])
    \/ \E m \in RequestMethods, p \in Paths : ServeHTTP(m, p)
    \/ Complete

Spec == Init /\ [][Next]_vars

-----------------------------------------------------------------------------
(* treemuxotel: the OpenTelemetry middleware *)

Writers == {"w1", "w2"}

NextErrors == {"nil", "errA", "errB"}

RemoteAddrs ==
    {[host |-> "10.0.0.1", port |-> "80", wellFormed |-> TRUE],
     [host |-> "junk", port |-> "", wellFormed |-> FALSE]}

ParamLists ==
    {<<>>,
     <<[name |-> "id", value |-> "7"]>>,
     <<[name |-> "", value |-> "a/b"]>>,
     <<[name |-> "year", value |-> "2014"], [name |-> "month", value |-> "05"]>>}

Requests ==
    [route : {"/post/:id", "/*"}, params : ParamLists,
     forwarded : {"", "192.0.2.1"}, remoteAddr : RemoteAddrs, recording : BOOLEAN]

\* net.SplitHostPort: the host, or "" when the address is malformed
SplitHost(addr) == IF addr.wellFormed THEN addr.host ELSE ""

remoteAddr(req) ==
    IF req.forwarded # "" THEN req.forwarded ELSE SplitHost(req.remoteAddr)

ParamAttr(param) ==
    [key |-> <<"http.route.param.", IF param.name = "" THEN "*" ELSE param.name>>,
     value |-> param.value]

\* the attributes the middleware sets on a recording span
Attrs(clientIP, req) ==
    <<[key |-> <<"http.route">>, value |-> req.route]>>
      \o (IF clientIP THEN <<[key |-> <<"http.client_ip">>, value |-> remoteAddr(req)]>>
          ELSE <<>>)
      \o [i \in 1..Len(req.params) |-> ParamAttr(req.params[i])]

CallNext(w, req) == [call |-> "next", w |-> w, req |-> req, attrs |-> <<>>]

SetAttributes(as) ==
    [call |-> "SetAttributes", w |-> "", req |-> <<>>, attrs |-> as]

\* variant: next is not called once the attributes are set
MiddlewareCallsWithoutNext(clientIP, w, req) ==
    IF ~req.recording THEN <<CallNext(w, <<req>>)>>
    ELSE <<SetAttributes(Attrs(clientIP, req))>>

\* the calls the wrapped handler function makes, in order
MiddlewareCalls(clientIP, w, req) ==
    IF ~req.recording THEN <<CallNext(w, <<req>>)>>
    ELSE <<SetAttributes(Attrs(clientIP, req)), CallNext(w, <<req>>)>>

\* the value the wrapped handler function returns, given what next returned
MiddlewareReturn(req, nextErr) == nextErr

\* the config after the options are applied to the default
ApplyOptions(opts) == IF opts = <<>> THEN TRUE ELSE Last(opts)

MwInit == [phase |-> "new", clientIP |-> TRUE, calls |-> <<>>, w |-> "",
           req |-> <<>>, nextErr |-> "nil", ret |-> "nil"]

InitMw ==
    /\ mux = DefaultConfig
    /\ root = RootNode
    /\ routes = {}
    /\ last = NoResponse
    /\ mw = MwInit

\* NewMiddleware(opts...)
NewMiddleware(opts) ==
    /\ mw' = [MwInit EXCEPT !.clientIP = ApplyOptions(opts)]
    /\ UNCHANGED <<mux, root, routes, last>>

\* one call of the handler function returned by Middleware(next); next
\* returns nextErr
Middleware(w, req, nextErr) ==
    /\ mw' = [mw EXCEPT !.phase = "returned",
                        !.calls = MiddlewareCalls(mw.clientIP, w, req),
                        !.w = w, !.req = <<req>>, !.nextErr = nextErr,
                        !.ret = MiddlewareReturn(req, nextErr)]
    /\ UNCHANGED <<mux, root, routes, last>>

NextMw ==
    \/ \E opts \in {<<>>, <<TRUE>>, <<FALSE>>, <<FALSE, TRUE>>} : NewMiddleware(opts)
    \/ \E w \in Writers, req \in Requests, e \in NextErrors : Middleware(w, req, e)

SpecMw == InitMw /\ [][NextMw]_vars

-----------------------------------------------------------------------------
(* Reference semantics of patterns, used to state the properties *)

Range(f) == {f[x] : x \in DOMAIN f}

\* the tokens of a registered pattern below the root, as the tree stores it
NodeToks(route) == Tail(Decompose(StripSlash(mux, route), FALSE))

\* The substitutions under which a path is an instance of a token list: a
\* wildcard takes a non-empty value without "/", a catch-all a non-empty
\* value; each substitution is the Params sequence in declaration order.
RECURSIVE Binds(_, _)
Binds(toks, path) ==
    IF toks = <<>> THEN (IF path = <<>> THEN {<<>>} ELSE {})
    ELSE LET t == Head(toks) IN
    CASE t.kind = "static" ->
            IF path # <<>> /\ <<Head(path)>> = t.val
            THEN Binds(Tail(toks), Tail(path)) ELSE {}
      [] t.kind = "wildcard" ->
            UNION {{<<[name |-> t.val, value |-> Unescape(SubSeq(path, 1, k))]>> \o b :
                        b \in Binds(Tail(toks), Drop(path, k))} :
                   k \in {j \in 1..Len(path) : \A i \in 1..j : path[i] # "/"}}
      [] OTHER ->
            IF Len(toks) = 1 /\ path # <<>>
            THEN {<<[name |-> t.val, value |-> Unescape(path)]>>} ELSE {}

\* the registered pattern matches the path handed to Lookup
Matches(route, path) == Binds(NodeToks(route), Tail(path)) # {}

Rank(kind) == CASE kind = "static" -> 1 [] kind = "wildcard" -> 2 [] OTHER -> 3

\* at the first position where token lists a and b differ, a is of a
\* higher-priority kind than b
Beats(a, b) ==
    LET k == CommonPrefixLen(a, b)
    IN  k < Len(a) /\ k < Len(b) /\ Rank(a[k + 1].kind) < Rank(b[k + 1].kind)

\* as Beats, for a static token against a wildcard or catch-all sibling
StaticBeats(a, b) ==
    LET k == CommonPrefixLen(a, b)
    IN  k < Len(a) /\ k < Len(b) /\ a[k + 1].kind = "static" /\ b[k + 1].kind # "static"

AllStatic(toks) == \A i \in 1..Len(toks) : toks[i].kind = "static"

IsCatchAllRoute(route) ==
    LET toks == NodeToks(route) IN toks # <<>> /\ Last(toks).kind = "catchall"

Served == last.op = "ServeHTTP"

Found == Served /\ last.outcome # "NotFound"

RECURSIVE Nodes(_)
Nodes(n) ==
    {n} \cup UNION {Nodes(n.staticChild[c]) : c \in DOMAIN n.staticChild}
        \cup UNION {Nodes(n.wildcardChild[i]) : i \in DOMAIN n.wildcardChild}
        \cup UNION {Nodes(n.catchAllChild[i]) : i \in DOMAIN n.catchAllChild}

-----------------------------------------------------------------------------
(* Properties *)

\* C1 (priority): whenever a registered pattern matches the looked-up path
\* and has a static token at the position where it parts from another
\* registered pattern that has a wildcard or catch-all there, Lookup does
\* not return that other pattern's node; and a registered pattern made of
\* static tokens only that matches the path is the one Lookup returns,
\* with its handler when it is registered for the request's method.  The
\* routes are registered in every order.
C1_StaticBeatsWildcardAndCatchAll ==
    Served =>
        \A a \in routes :
            Matches(a.route, last.searched) =>
                /\ \A b \in Range(last.table) :
                        ~StaticBeats(NodeToks(a.route), NodeToks(b.route))
                /\ AllStatic(NodeToks(a.route)) =>
                        /\ Found
                        /\ \A b \in Range(last.table) :
                                NodeToks(b.route) = NodeToks(a.route)
                        /\ a.method = last.method =>
                                /\ last.outcome = "Success"
                                /\ last.table[last.method] = a

\* a static, a wildcard and a catch-all route are siblings below the root
\* and a request for the static one was served by the static route
C1_Witness ==
    /\ routes = {[method |-> "GET", route |-> <<"/", "a">>],
                 [method |-> "GET", route |-> <<"/", ":", "x">>],
                 [method |-> "GET", route |-> <<"/", "*", "p">>]}
    /\ Served /\ last.method = "GET" /\ last.path = <<"/", "a">>
    /\ last.kind = "handler"
    /\ last.handler = [method |-> "GET", route |-> <<"/", "a">>]

\* C2 (catch-all and the empty remainder): a Lookup that ends at a
\* catch-all node binds a non-empty value as its last Param; and a request
\* path that is the catch-all pattern's prefix, with or without the
\* prefix's final slash (/images/ and /images for /images/*path), is never
\* answered from that catch-all route's node.
C2_CatchAllNeverEmpty ==
    Served =>
        /\ (Found /\ last.isCatchAll) =>
                /\ last.params # <<>>
                /\ Last(last.params).value # <<>>
        /\ \A a \in routes :
            IsCatchAllRoute(a.route) =>
                LET prefix == Front(NodeToks(a.route))
                    bare == IF prefix # <<>> /\ Last(prefix).val = <<"/">>
                            THEN Front(prefix) ELSE prefix
                IN  (\/ Binds(prefix, Tail(last.path)) # {}
                     \/ Binds(bare, Tail(last.path)) # {})
                        => a \notin Range(last.table)

\* only /a/*p is registered and /a/ was requested: not found
C2_Witness ==
    /\ routes = {[method |-> "GET", route |-> <<"/", "a", "/", "*", "p">>]}
    /\ Served /\ last.method = "GET" /\ last.path = <<"/", "a", "/">>
    /\ last.kind = "notfound"

\* C3 as stated, with every route registered under the request's method:
\* for every registered pattern and every path that is an instance of the
\* pattern, Lookup succeeds with that pattern's handler and with the
\* substitution as Params.
C3_Original_EveryInstanceReturnsItsPattern ==
    (Served /\ \A c \in routes : c.method = last.method) =>
        \A a \in routes :
            a.method = last.method =>
                \A b \in Binds(NodeToks(a.route), Tail(last.searched)) :
                    /\ last.outcome = "Success"
                    /\ last.table[last.method] = a
                    /\ last.params = b

\* C3 (amended): the same, for the instances that no registered pattern of
\* higher priority matches.
C3_InstanceReturnsItsPatternUnlessOutranked ==
    Served =>
        \A a \in routes :
            (/\ a.method = last.method
             /\ \A c \in routes :
                    Matches(c.route, last.searched)
                        => ~Beats(NodeToks(c.route), NodeToks(a.route)))
            => \A b \in Binds(NodeToks(a.route), Tail(last.searched)) :
                    /\ last.outcome = "Success"
                    /\ last.table[last.method] = a
                    /\ last.params = b

\* /:x/:y is registered and /%2F/a was served by it with x = "/" and
\* y = "a", in that order
C3_Witness ==
    /\ [method |-> "GET", route |-> <<"/", ":", "x", "/", ":", "y">>] \in routes
    /\ Served /\ last.method = "GET" /\ last.path = <<"/", "%2F", "/", "a">>
    /\ last.kind = "handler"
    /\ last.handler.route = <<"/", ":", "x", "/", ":", "y">>
    /\ last.params = <<[name |-> <<"x">>, value |-> <<"/">>],
                       [name |-> <<"y">>, value |-> <<"a">>]>>

\* C4 as stated: the flag of a terminal node is the slash presence of the
\* first pattern registered at that node.
C4_Original_FirstRegistrationWins ==
    \A n \in Nodes(root) :
        IsTerminal(n) => n.firstSlash = <<n.addSlash>>

\* C4 (amended): the flag is stored once per node, for all its methods; it
\* is set exactly when some pattern registered at the node ends with a
\* slash (a registration without the slash never clears it), so that after
\* GET /a/ and POST /a, in either order, POST /a is redirected to /a/.
C4_FlagSetByAnySlashRegistration ==
    /\ \A n \in Nodes(root) :
            IsTerminal(n) =>
                n.addSlash = (/\ mux.RedirectTrailingSlash
                              /\ \E e \in Range(n.leafHandler) : HasTrailingSlash(e.route))
    /\ (/\ Served /\ last.method = "POST" /\ last.path = <<"/", "a">>
        /\ [method |-> "GET", route |-> <<"/", "a", "/">>] \in routes
        /\ [method |-> "POST", route |-> <<"/", "a">>] \in routes
        /\ mux.RedirectTrailingSlash
        /\ RedirectBehaviorFor(mux, "POST") # "UseHandler")
       => (last.kind = "redirect" /\ last.location = <<"/", "a", "/">>)

\* GET /a/ and POST /a are registered and POST /a was redirected to /a/
C4_Witness ==
    /\ routes = {[method |-> "GET", route |-> <<"/", "a", "/">>],
                 [method |-> "POST", route |-> <<"/", "a">>]}
    /\ Served /\ last.method = "POST" /\ last.path = <<"/", "a">>
    /\ last.kind = "redirect" /\ last.location = <<"/", "a", "/">>

\* the path with the presence of its trailing slash changed
Toggle(p) == IF HasTrailingSlash(p) THEN Front(p) ELSE Append(p, "/")

Redirecting == mux.RedirectTrailingSlash /\ RedirectBehaviorFor(mux, last.method) # "UseHandler"

\* C5 as stated, for request paths in clean form: whenever the request
\* path differs only by the trailing slash from an instance of a
\* non-catch-all pattern registered for the request's method, the request
\* is redirected to that instance, which is then served by a handler.
C5_Original_RedirectToRegisteredForm ==
    (Served /\ Redirecting /\ Len(last.path) > 1 /\ Clean(last.path) = last.path) =>
        \A a \in routes :
            (/\ a.method = last.method
             /\ ~IsCatchAllRoute(a.route)
             /\ Binds(Tail(Decompose(a.route, FALSE)), Tail(Toggle(last.path))) # {})
            => /\ last.kind = "redirect"
               /\ last.location = Toggle(last.path)
               /\ Serve(mux, root, last.method, last.location).kind = "handler"

\* C5 (amended): whenever the request path without its trailing slash is
\* matched at a non-catch-all node that serves the request's method and
\* the request's slash presence differs from the node's flag, the request
\* is redirected to the path with its slash presence changed; and the
\* target of that redirect is served directly by the handler of the same
\* node, with no further redirect.
C5_RedirectIsIdempotent ==
    (Served /\ Redirecting /\ Found /\ ~last.isCatchAll
        /\ last.searched = StripSlash(mux, last.path)) =>
        LET serves == ResolveHandler(mux, last.table, last.method) # <<>>
            differs == HasTrailingSlash(last.path) # last.addSlash
            target == Serve(mux, root, last.method, last.location)
        IN  /\ (serves /\ differs /\ last.path # <<"/", "/">>) => last.kind = "redirect"
            /\ last.kind = "redirect" =>
                /\ last.location = Toggle(last.path)
                /\ target.kind = "handler"
                /\ target.table = last.table
                /\ <<target.handler>> = ResolveHandler(mux, last.table, last.method)

\* GET /a/ is registered and GET /a was redirected to /a/
C5_Witness ==
    /\ [method |-> "GET", route |-> <<"/", "a", "/">>] \in routes
    /\ Served /\ last.method = "GET" /\ last.path = <<"/", "a">>
    /\ last.kind = "redirect" /\ last.location = <<"/", "a", "/">>
    /\ Serve(mux, root, "GET", last.location).kind = "handler"

\* C6 (duplicate registration): an Add whose (method, pattern) is that of
\* an earlier successful Add returns an error and registers nothing.
C6_DuplicateAddFails ==
    [][(/\ last'.op = "Add"
        /\ [method |-> last'.method, route |-> last'.path] \in routes)
       => (last'.err # "nil" /\ root' = root /\ routes' = routes)]_vars

\* an Add of an already registered (method, pattern) returned the error
C6_Witness ==
    /\ last.op = "Add" /\ last.err = "duplicate route"
    /\ [method |-> last.method, route |-> last.path] \in routes

\* C7 (HEAD falls back to GET): with HeadCanUseGet, a HEAD request matched
\* at a node with a GET handler and no HEAD handler is not answered with
\* method-not-allowed: the GET handler is dispatched, unless the request
\* is first redirected for its trailing slash; and at a node with a HEAD
\* handler the HEAD handler is the one dispatched.
C7_HeadUsesGetHandler ==
    (Served /\ last.method = "HEAD" /\ Found
        /\ last.searched = StripSlash(mux, last.path)) =>
        /\ (mux.HeadCanUseGet /\ "GET" \in DOMAIN last.table /\ "HEAD" \notin DOMAIN last.table)
            => \/ last.kind = "handler" /\ last.handler = last.table["GET"]
               \/ last.kind = "redirect" /\ last.location = Toggle(last.path)
        /\ "HEAD" \in DOMAIN last.table
            => \/ last.kind = "handler" /\ last.handler = last.table["HEAD"]
               \/ last.kind = "redirect" /\ last.location = Toggle(last.path)

\* only GET /a is registered and HEAD /a was served by the GET handler
C7_Witness ==
    /\ routes = {[method |-> "GET", route |-> <<"/", "a">>]}
    /\ Served /\ last.method = "HEAD" /\ last.path = <<"/", "a">>
    /\ last.kind = "handler"
    /\ last.handler = [method |-> "GET", route |-> <<"/", "a">>]

\* C8 (the three outcomes): Lookup's outcome is Success when the matched
\* node's method table has the request's method, MethodNotAllowed when a
\* node is matched whose table has other methods only, NotFound exactly
\* when no registered pattern of any method matches the path; NotFound is
\* answered with 404, and MethodNotAllowed with 405 unless HEAD reuses GET
\* or the OPTIONS handler takes the request.
C8_OutcomeFromMethodTable ==
    Served =>
        LET matched == \E a \in routes : Matches(a.route, last.searched)
        IN  /\ last.outcome \in {"Success", "MethodNotAllowed", "NotFound"}
            /\ (last.outcome = "NotFound") = ~matched
            /\ matched => /\ last.table # NoFn
                          /\ (last.outcome = "Success") = (last.method \in DOMAIN last.table)
            /\ (last.kind = "notfound") = (last.outcome = "NotFound")
            /\ last.kind = "notfound" => last.status = 404
            /\ last.kind = "notallowed" =>
                    last.status = 405 /\ last.outcome = "MethodNotAllowed"
            /\ (/\ last.outcome = "MethodNotAllowed"
                /\ last.searched = StripSlash(mux, last.path)
                /\ ~HeadUsesGet(mux, last.table, last.method)
                /\ ~(last.method = "OPTIONS" /\ mux.OptionsHandler))
               => last.kind = "notallowed"

\* POST /a is registered only for GET: answered with 405
C8_Witness ==
    /\ routes = {[method |-> "GET", route |-> <<"/", "a">>]}
    /\ Served /\ last.method = "POST" /\ last.path = <<"/", "a">>
    /\ last.outcome = "MethodNotAllowed"
    /\ last.kind = "notallowed" /\ last.status = 405

\* C9 (backtracking): Lookup finds a match whenever some registered
\* pattern matches the path, also when a static child matched a prefix of
\* the path and its subtree failed; the pattern of the node it returns
\* matches the path with the Params returned, and no registered pattern
\* that matches the path has priority over it.
C9_BacktrackingComplete ==
    Served =>
        /\ (\E a \in routes : Matches(a.route, last.searched)) => Found
        /\ Found =>
            \A b \in Range(last.table) :
                /\ b \in routes
                /\ last.params \in Binds(NodeToks(b.route), Tail(last.searched))
                /\ \A a \in routes :
                        Matches(a.route, last.searched)
                            => ~Beats(NodeToks(a.route), NodeToks(b.route))

\* /a and /:x/:y are registered; for /a/a the static child "a" matches a
\* prefix, its subtree fails, and the wildcard route serves the request
C9_Witness ==
    /\ routes = {[method |-> "GET", route |-> <<"/", "a">>],
                 [method |-> "GET", route |-> <<"/", ":", "x", "/", ":", "y">>]}
    /\ Served /\ last.method = "GET" /\ last.path = <<"/", "a", "/", "a">>
    /\ last.kind = "handler"
    /\ last.handler.route = <<"/", ":", "x", "/", ":", "y">>
    /\ last.params = <<[name |-> <<"x">>, value |-> <<"a">>],
                       [name |-> <<"y">>, value |-> <<"a">>]>>

\* C10 (the middleware is a pass-through): every call of the wrapped
\* handler calls next exactly once, with the response writer and the
\* request it was given, and returns what next returned; SetAttributes is
\* called exactly when the span is recording, and then before next.
C10_MiddlewarePassThrough ==
    mw.phase = "returned" =>
        LET nextCalls == {i \in DOMAIN mw.calls : mw.calls[i].call = "next"}
            setCalls == {i \in DOMAIN mw.calls : mw.calls[i].call = "SetAttributes"}
        IN  /\ Cardinality(nextCalls) = 1
            /\ \A i \in nextCalls : mw.calls[i].w = mw.w /\ mw.calls[i].req = mw.req
            /\ mw.ret = mw.nextErr
            /\ (setCalls # {}) = mw.req[1].recording
            /\ \A i \in setCalls, j \in nextCalls : i < j

\* a recording span without the client IP option: attributes were set and
\* the error of next was returned
C10_Witness ==
    /\ mw.phase = "returned" /\ ~mw.clientIP /\ mw.req[1].recording
    /\ mw.nextErr = "errA" /\ mw.ret = "errA"
    /\ Len(mw.calls) = 2 /\ mw.calls[1].call = "SetAttributes"

====
